---- MODULE Spec2Model ----
(***************************************************************************)
(* Token emission calculator (src/app.py: constant hard cap, src/app2.py:  *)
(* optionally growing hard cap).                                           *)
(*                                                                         *)
(* Numbers.  The program computes in IEEE float64.  Here a number is an    *)
(* exact rational n/d in lowest terms, or one of the IEEE special values   *)
(* NaN, +inf, -inf that numpy produces on 0/0, x/0 and inf*0.  Rounding of *)
(* float64 is abstracted away; the special values and the comparison rules *)
(* (every comparison with NaN is false) are kept.                          *)
(*                                                                         *)
(* Transcendental functions.  np.exp is evaluated on integer multiples of  *)
(* ln 2 (exact powers of two), np.sin on multiples of a quarter period     *)
(* (exact 0, 1, 0, -1) and np.log through a table rounded to halves.       *)
(*                                                                         *)
(* Scale.  A simulated year has DaysPerYear days instead of 365; rates are *)
(* per model day.                                                          *)
(***************************************************************************)
EXTENDS Integers, Sequences, FiniteSets, TLC

VARIABLES cfg, trajectories, pc, idx, t, tvl_values, cap_values,
          minted_so_far, emissions, results

vars == <<cfg, trajectories, pc, idx, t, tvl_values, cap_values,
          minted_so_far, emissions, results>>

(* ---------------------------- bounds ----------------------------------- *)
DaysPerYear == 4
MaxCalls == 3

(* ------------------------ float64 abstraction -------------------------- *)
Abs(n) == IF n < 0 THEN -n ELSE n

RECURSIVE GCD(_, _)
GCD(a, b) == IF b = 0 THEN a ELSE GCD(b, a % b)

Norm(n, d) ==
    LET g == GCD(Abs(n), Abs(d))
        s == IF d < 0 THEN -1 ELSE 1
    IN [k |-> "num", n |-> s * (n \div g), d |-> s * (d \div g)]

Num(n, d) == Norm(n, d)
Whole(n) == [k |-> "num", n |-> n, d |-> 1]
NaN == [k |-> "nan", n |-> 0, d |-> 1]
PInf == [k |-> "inf", n |-> 1, d |-> 1]
NInf == [k |-> "inf", n |-> -1, d |-> 1]

IsNaN(x) == x.k = "nan"
IsInf(x) == x.k = "inf"
IsNum(x) == x.k = "num"
Sign(x) == IF x.n > 0 THEN 1 ELSE IF x.n < 0 THEN -1 ELSE 0
Inf(s) == IF s < 0 THEN NInf ELSE PInf

FNeg(x) == IF IsNaN(x) THEN NaN ELSE [x EXCEPT !.n = -x.n]

FAdd(x, y) ==
    IF IsNaN(x) \/ IsNaN(y) THEN NaN
    ELSE IF IsInf(x) /\ IsInf(y) THEN (IF x.n = y.n THEN x ELSE NaN)
    ELSE IF IsInf(x) THEN x
    ELSE IF IsInf(y) THEN y
    ELSE LET l == (x.d \div GCD(x.d, y.d)) * y.d
         IN Norm(x.n * (l \div x.d) + y.n * (l \div y.d), l)

FSub(x, y) == FAdd(x, FNeg(y))

FMul(x, y) ==
    IF IsNaN(x) \/ IsNaN(y) THEN NaN
    ELSE IF IsInf(x) \/ IsInf(y)
         THEN (IF Sign(x) = 0 \/ Sign(y) = 0 THEN NaN ELSE Inf(Sign(x) * Sign(y)))
    ELSE LET g1 == GCD(Abs(x.n), y.d)
             g2 == GCD(Abs(y.n), x.d)
         IN Norm((x.n \div g1) * (y.n \div g2), (x.d \div g2) * (y.d \div g1))

FDiv(x, y) ==
    IF IsNaN(x) \/ IsNaN(y) THEN NaN
    ELSE IF IsInf(x) /\ IsInf(y) THEN NaN
    ELSE IF IsInf(x) THEN Inf(IF Sign(y) < 0 THEN -Sign(x) ELSE Sign(x))
    ELSE IF IsInf(y) THEN Whole(0)
    ELSE IF y.n = 0 THEN (IF x.n = 0 THEN NaN ELSE Inf(Sign(x)))
    ELSE FMul(x, Norm(y.d, y.n))

FLt(x, y) ==
    IF IsNaN(x) \/ IsNaN(y) THEN FALSE
    ELSE IF IsInf(x) THEN x.n < 0 /\ y # NInf
    ELSE IF IsInf(y) THEN y.n > 0
    ELSE LET l == (x.d \div GCD(x.d, y.d)) * y.d
         IN x.n * (l \div x.d) < y.n * (l \div y.d)

FEq(x, y) == ~IsNaN(x) /\ ~IsNaN(y) /\ x = y
FLe(x, y) == FLt(x, y) \/ FEq(x, y)

\* Python's builtin min(a, b): a unless b < a (so min(nan, b) is nan).
PyMin(a, b) == IF FLt(b, a) THEN b ELSE a

RECURSIVE Pow2(_)
Pow2(n) == IF n = 0 THEN 1 ELSE 2 * Pow2(n - 1)

\* np.exp at k * ln 2
npExp(k) == IF k >= 0 THEN Whole(Pow2(k)) ELSE Num(1, Pow2(-k))

\* np.sin(2 * np.pi * q / 4)
npSin(q) == Whole(<<0, 1, 0, -1>>[(q % 4) + 1])

\* np.log(x) rounded to the nearest half, for x = 1, 1.5, 2, ... , 8
\* (ln 1 = 0 exactly; ln 1.5 = 0.41, ln 2 = 0.69, ln 2.5 = 0.92, ln 3 = 1.10, ...)
LnHalves == <<0, 1, 1, 2, 2, 3, 3, 3, 3, 3, 4, 4, 4, 4, 4>>
npLog(x) == Num(LnHalves[(2 * x.n) \div x.d - 1], 2)

(* --------------------------- sidebar inputs ---------------------------- *)
\* The values a widget can deliver: every set respects the widget's
\* min_value / max_value.  app.py's single "Hard Cap" input is initial_cap.
Caps == {Whole(1), Whole(4)}
CapGrowthRates == {Whole(0), Num(1, 2), Whole(1)}
MaxCapsFor(ic) == {ic, FAdd(ic, Whole(2))}
DeltaMaxes == {Whole(1), Whole(4)}
Alphas == {Num(1, 2), Whole(1)}
Amplitudes == {Whole(1), Whole(5), Whole(6)}

CapSettings ==
    {[app |-> "app", initial_cap |-> c, cap_growth_enabled |-> FALSE,
      cap_growth_rate |-> Whole(0), max_cap |-> c] : c \in Caps}
    \cup
    UNION {{[app |-> "app2", initial_cap |-> c, cap_growth_enabled |-> FALSE,
             cap_growth_rate |-> Whole(0), max_cap |-> c]} \cup
           {[app |-> "app2", initial_cap |-> c, cap_growth_enabled |-> TRUE,
             cap_growth_rate |-> r, max_cap |-> m] :
                r \in CapGrowthRates, m \in MaxCapsFor(c)} : c \in Caps}

ConfigsOf(dms, alphas, amps) ==
    {[app |-> cs.app, initial_cap |-> cs.initial_cap,
      cap_growth_enabled |-> cs.cap_growth_enabled,
      cap_growth_rate |-> cs.cap_growth_rate, max_cap |-> cs.max_cap,
      start_tvl |-> Whole(1), delta_max |-> dm, alpha |-> a, years |-> 1,
      growth_rate |-> Whole(1), sin_growth_rate |-> Whole(1),
      amplitude |-> amp, period |-> 4, exp_growth_rate |-> 1,
      s_curve_midpoint |-> 2, s_curve_steepness |-> 1,
      s_curve_max_tvl |-> Whole(4)] :
        cs \in CapSettings, dm \in dms, a \in alphas, amp \in amps}

Configs == ConfigsOf(DeltaMaxes, Alphas, Amplitudes)

\* A direct caller of the core is not bound by the "Max Tokens Per Day"
\* widget's min_value and may pass delta_max = 0.
DirectConfigs == ConfigsOf(DeltaMaxes \cup {Whole(0)}, {Whole(1)}, {Whole(1), Whole(5)})

cap == cfg.initial_cap
initial_cap == cfg.initial_cap
cap_growth_enabled == cfg.cap_growth_enabled
cap_growth_rate == cfg.cap_growth_rate
max_cap == cfg.max_cap
start_tvl == cfg.start_tvl
delta_max == cfg.delta_max
alpha == cfg.alpha
years == cfg.years
growth_rate == cfg.growth_rate
sin_growth_rate == cfg.sin_growth_rate
amplitude == cfg.amplitude
period == cfg.period
exp_growth_rate == cfg.exp_growth_rate
s_curve_midpoint == cfg.s_curve_midpoint
s_curve_steepness == cfg.s_curve_steepness
s_curve_max_tvl == cfg.s_curve_max_tvl

(* ------------------------------ time grid ------------------------------ *)
days == DaysPerYear * years
epochs == [i \in 1..days |-> Whole(i - 1)]

(* --------------------------- hard cap schedule ------------------------- *)
\* The log is normalised by the horizon in years instead of days.
calculate_hard_cap_years(tt) ==
    IF ~cap_growth_enabled THEN initial_cap
    ELSE FAdd(initial_cap,
              FDiv(FMul(FSub(max_cap, initial_cap),
                        npLog(FAdd(Whole(1), FMul(cap_growth_rate, tt)))),
                   npLog(FAdd(Whole(1), FMul(cap_growth_rate, Whole(years))))))

calculate_hard_cap(tt) ==
    IF ~cap_growth_enabled THEN initial_cap
    ELSE FAdd(initial_cap,
              FDiv(FMul(FSub(max_cap, initial_cap),
                        npLog(FAdd(Whole(1), FMul(cap_growth_rate, tt)))),
                   npLog(FAdd(Whole(1), FMul(cap_growth_rate, Whole(days))))))

(* ------------------------ TVL trajectory functions --------------------- *)
increasing_tvl(tt) ==
    FMul(start_tvl, FAdd(Whole(1), FMul(growth_rate, tt)))

sinusoidal_increasing_tvl(tt) ==
    LET trend == FMul(start_tvl, FAdd(Whole(1), FMul(sin_growth_rate, tt)))
        seasonal == FMul(amplitude, npSin((4 * tt.n) \div period))
    IN FAdd(trend, seasonal)

exponential_tvl(tt) ==
    FMul(start_tvl, npExp(exp_growth_rate * tt.n))

s_curve_tvl(tt) ==
    FAdd(start_tvl,
         FDiv(FSub(s_curve_max_tvl, start_tvl),
              FAdd(Whole(1), npExp(-s_curve_steepness * (tt.n - s_curve_midpoint)))))

Labels == {"Linear Growth", "Sinusoidal Growth", "Exponential Growth", "S-Curve Growth"}

TrajectoryList ==
    <<"Linear Growth", "Sinusoidal Growth", "Exponential Growth", "S-Curve Growth">>

tvl_trajectory(f, tt) ==
    CASE f = "Linear Growth" -> increasing_tvl(tt)
      [] f = "Sinusoidal Growth" -> sinusoidal_increasing_tvl(tt)
      [] f = "Exponential Growth" -> exponential_tvl(tt)
      [] f = "S-Curve Growth" -> s_curve_tvl(tt)

(* --------------------------- calculate_emissions ----------------------- *)
zeros_like == [i \in 1..days |-> Whole(0)]

\* The cap the loop body uses on day i - 1 (index i of the arrays).
current_cap(i) == IF cfg.app = "app" THEN cap ELSE cap_values[i]

g_cap(i) == FSub(Whole(1), FDiv(minted_so_far[i], current_cap(i)))

f_tvl(i) == FDiv(Whole(1), FAdd(Whole(1), FMul(alpha, tvl_values[i])))

e_t(i) == FMul(FMul(delta_max, g_cap(i)), f_tvl(i))

e_actual(i) == PyMin(e_t(i), FSub(current_cap(i), minted_so_far[i]))

\* The cumulative mint is carried over from the previous run instead of
\* starting from a fresh all-zero array.
Call_shared ==
    /\ pc = "main"
    /\ idx <= Len(trajectories)
    /\ tvl_values' = [i \in 1..days |-> tvl_trajectory(trajectories[idx], epochs[i])]
    /\ cap_values' = IF cfg.app = "app2"
                     THEN [i \in 1..days |-> calculate_hard_cap(epochs[i])]
                     ELSE <<>>
    /\ minted_so_far' = IF minted_so_far = <<>> THEN zeros_like
                        ELSE [zeros_like EXCEPT ![1] = minted_so_far[days]]
    /\ emissions' = zeros_like
    /\ t' = 0
    /\ pc' = "loop"
    /\ UNCHANGED <<cfg, trajectories, idx, results>>

\* Entry of calculate_emissions: the trajectory is evaluated over the grid
\* and both output arrays are allocated afresh.
Call ==
    /\ pc = "main"
    /\ idx <= Len(trajectories)
    /\ tvl_values' = [i \in 1..days |-> tvl_trajectory(trajectories[idx], epochs[i])]
    /\ cap_values' = IF cfg.app = "app2"
                     THEN [i \in 1..days |-> calculate_hard_cap(epochs[i])]
                     ELSE <<>>
    /\ minted_so_far' = zeros_like
    /\ emissions' = zeros_like
    /\ t' = 0
    /\ pc' = "loop"
    /\ UNCHANGED <<cfg, trajectories, idx, results>>

\* One iteration of "for t in range(len(epochs))".
Step ==
    /\ pc = "loop"
    /\ t < days
    /\ emissions' = [emissions EXCEPT ![t + 1] = e_actual(t + 1)]
    /\ minted_so_far' =
         IF t < days - 1
         THEN [minted_so_far EXCEPT ![t + 2] = FAdd(minted_so_far[t + 1], e_actual(t + 1))]
         ELSE minted_so_far
    /\ t' = t + 1
    /\ UNCHANGED <<cfg, trajectories, pc, idx, tvl_values, cap_values, results>>

\* The loop is exhausted: the arrays are returned to the trajectory loop.
Return ==
    /\ pc = "loop"
    /\ t = days
    /\ results' = Append(results, [label |-> trajectories[idx], tvl |-> tvl_values,
                                   emissions |-> emissions,
                                   minted_so_far |-> minted_so_far,
                                   cap |-> cap_values])
    /\ idx' = idx + 1
    /\ pc' = "main"
    /\ UNCHANGED <<cfg, trajectories, t, tvl_values, cap_values, minted_so_far, emissions>>

Next == Call \/ Step \/ Return

StartState ==
    /\ pc = "main"
    /\ idx = 1
    /\ t = 0
    /\ tvl_values = <<>>
    /\ cap_values = <<>>
    /\ minted_so_far = <<>>
    /\ emissions = <<>>
    /\ results = <<>>

\* The script: the sidebar supplies the configuration, the trajectory loop
\* runs the four generators in list order.
Init ==
    /\ cfg \in Configs
    /\ trajectories = TrajectoryList
    /\ StartState

Spec == Init /\ [][Next]_vars

\* The core called directly: any configuration a caller may pass, any
\* sequence of MaxCalls trajectory runs.
InitDirect ==
    /\ cfg \in DirectConfigs
    /\ trajectories \in [1..MaxCalls -> Labels]
    /\ StartState

SpecDirect == InitDirect /\ [][Next]_vars

(* ------------------------------ properties ----------------------------- *)
\* Array indices (day + 1) whose entry the current run has already written.
EmDone == (DOMAIN emissions) \cap (1..t)
MintDone == (DOMAIN minted_so_far) \cap (1..(t + 1))
ConstantCap == cfg.app = "app" \/ ~cap_growth_enabled
GrowingCap == cfg.app = "app2" /\ cap_growth_enabled

\* C1: on every day the cumulative mint is at most the cap effective that day.
C1_CapNeverExceeded ==
    \A i \in MintDone : FLe(minted_so_far[i], current_cap(i))

\* C2: no recorded emission is negative, so the cumulative mint never decreases.
C2_EmissionNonNegative ==
    /\ \A i \in EmDone : FLe(Whole(0), emissions[i])
    /\ \A i \in MintDone : i > 1 => FLe(minted_so_far[i - 1], minted_so_far[i])

\* C3: in growing-cap mode with cap_growth_rate = 0 the schedule is initial_cap
\* on every day and no emission is NaN.
C3_ZeroRateFallsBack ==
    (GrowingCap /\ FEq(cap_growth_rate, Whole(0))) =>
        /\ \A i \in DOMAIN cap_values : FEq(cap_values[i], initial_cap)
        /\ \A i \in EmDone : ~IsNaN(emissions[i])

ValidConfiguration ==
    /\ FLt(Whole(0), alpha)
    /\ FLt(Whole(0), initial_cap)
    /\ FLe(initial_cap, max_cap)
    /\ FLe(Whole(0), start_tvl)
    /\ \A i \in DOMAIN tvl_values : FLe(Whole(0), tvl_values[i])

\* C4: no iteration of the emission loop runs with a configuration that has
\* alpha <= 0, cap <= 0, max_cap < initial_cap or a negative TVL input.
C4_InvalidNeverIterated ==
    (pc = "loop" /\ t > 0) => ValidConfiguration

C6_FinalDayWithinCap ==
    (t = days /\ emissions # <<>>) =>
        FLe(FAdd(minted_so_far[days], emissions[days]), current_cap(days))

\* C7: two runs of the same trajectory return identical sequences, whatever
\* was run before or between them; a run in progress agrees, entry by entry,
\* with every earlier run of the same trajectory.
C7_RunsIndependent ==
    /\ \A i, j \in 1..Len(results) :
          results[i].label = results[j].label => results[i] = results[j]
    /\ pc = "loop" =>
          \A i \in 1..Len(results) :
              results[i].label = trajectories[idx] =>
                  /\ tvl_values = results[i].tvl
                  /\ \A k \in EmDone : emissions[k] = results[i].emissions[k]
                  /\ \A k \in MintDone : minted_so_far[k] = results[i].minted_so_far[k]

C7_Witness ==
    /\ Len(results) >= 3
    /\ results[1].label = results[3].label
    /\ results[2].label # results[1].label
    /\ results[1].minted_so_far # results[2].minted_so_far
    /\ FLt(Whole(0), results[2].minted_so_far[days])

\* C8: with delta_max = 0 every emission and every cumulative mint is 0.
C8_ZeroDeltaMax ==
    FEq(delta_max, Whole(0)) =>
        /\ \A i \in EmDone : FEq(emissions[i], Whole(0))
        /\ \A i \in MintDone : FEq(minted_so_far[i], Whole(0))

\* C9: a day that starts with the cap exhausted records emission 0, and under
\* a constant cap every later day is exhausted with emission 0 too.
C9_ExhaustedEmitsZero ==
    \A i \in EmDone :
        FEq(minted_so_far[i], current_cap(i)) =>
            /\ FEq(emissions[i], Whole(0))
            /\ ConstantCap =>
                 \A j \in EmDone : j > i =>
                     /\ FEq(minted_so_far[j], current_cap(j))
                     /\ FEq(emissions[j], Whole(0))

\* C10: the damping factor lies in (0, 1] and no day emits more than delta_max.
C10_DampingBounded ==
    \A i \in EmDone :
        /\ FLt(Whole(0), f_tvl(i))
        /\ FLe(f_tvl(i), Whole(1))
        /\ FLe(emissions[i], delta_max)

====
